---- MODULE Spec2Model ----
(***************************************************************************)
(* Model of src/src/executor/filter.rs: the WHERE-clause evaluator         *)
(* (check_expr, parse_expr, parse_in_expr, Parsed::exists_in) and the two  *)
(* predicate objects Filter and BlendedFilter.                             *)
(*                                                                         *)
(* An evaluation is pure, so its result is modelled as a record            *)
(*   [out |-> "true" | "false" | "panic", log |-> sequence of events]      *)
(* where "panic" is the unwinding of a failed unwrap() and the log lists,  *)
(* in program order, the calls made to the collaborators (column lookups,  *)
(* select() calls, rows pulled from a select() iterator).                  *)
(***************************************************************************)
EXTENDS Integers, Sequences, FiniteSets, TLC

\* Bounds of the model.
MaxRows == 3        \* most rows a nested SELECT yields
MaxWrap == 2        \* deepest chain of NegationOp / Bracketed wrappers
ShortRows == 1      \* most rows of a nested SELECT where only the first is read

VARIABLES
    storage,        \* Filter.storage: statement -> the rows select() yields
    where_clause,   \* Filter.where_clause: Option<&ConditionExpression>
    context,        \* Filter.context: Option<&FilterContext>
    blend_context,  \* BlendedFilter.context, None when no BlendedFilter was built
    pc,             \* "new", "Filter::check" or "BlendedFilter::check" (last call)
    row,            \* the row argument of the last check
    result          \* the outcome of the last check

vars == <<storage, where_clause, context, blend_context, pc, row, result>>

----------------------------------------------------------------------------
\* Option<T>
None == [none |-> TRUE]
Some(x) == [some |-> x]
IsSome(o) == "some" \in DOMAIN o
IsNone(o) == ~IsSome(o)

\* Option::or(self, optb): optb is an already evaluated argument.
Option_or(a, b) == IF IsSome(a) THEN a ELSE b

----------------------------------------------------------------------------
\* data::Value and nom_sql::Literal.  A String payload is a code number.
I64(n) == [t |-> "I64", v |-> n]
Str(n) == [t |-> "Str", v |-> n]
Integer(n) == [t |-> "Integer", v |-> n]
String(n) == [t |-> "String", v |-> n]

\* impl PartialEq<Literal> for Value: equal when the literal denotes the value.
Value_eq_Literal(v, l) ==
    \/ v.t = "I64" /\ l.t = "Integer" /\ v.v = l.v
    \/ v.t = "Str" /\ l.t = "String" /\ v.v = l.v

\* Row::take_first_value: the first column's value, none for a row of no columns.
take_first_value(r) == IF Len(r) = 0 THEN None ELSE Some(r[1])

\* select(storage, statement, context): the rows of the nested SELECT, pulled
\* lazily by the caller.
select(st, statement) == st[statement]

----------------------------------------------------------------------------
\* Events of the log.
Ev(e, id, n) == [ev |-> e, id |-> id, n |-> n]

\* Results of an evaluation.
Done(b, log) == [out |-> IF b THEN "true" ELSE "false", log |-> log]
Panic(log) == [out |-> "panic", log |-> log]
IsBool(r) == r.out \in {"true", "false"}

\* Result of resolving an operand: val is Option<Parsed> or Option<ParsedList>.
Ok(val, log) == [st |-> "ok", val |-> val, log |-> log]
Abort(log) == [st |-> "panic", val |-> None, log |-> log]

----------------------------------------------------------------------------
\* FilterContext: a (table, columns, row) scope chained to an optional parent.
FilterContext_from(t, cols, r, next) ==
    [table |-> t, columns |-> cols, row |-> r, next |-> next]

ScopeMatches(c, column) ==
    /\ c.table = column.table
    /\ \E i \in 1..Len(c.columns) : c.columns[i] = column.name

ScopeValue(c, column) ==
    c.row[CHOOSE i \in 1..Len(c.columns) : c.columns[i] = column.name]

\* FilterContext::get_value / BlendContext::get_value on an Option<context>:
\* this scope first, then the chained one.
RECURSIVE get_value(_, _)
get_value(ctx, column) ==
    IF IsNone(ctx) THEN None
    ELSE IF ScopeMatches(ctx.some, column) THEN Some(ScopeValue(ctx.some, column))
    ELSE get_value(ctx.some.next, column)

\* The lookups a get_value call makes, for the log.
LookupLog(ctx, blend, column) ==
    <<Ev("get_value", column.name, 0)>>
        \o (IF IsSome(blend) THEN <<Ev("blend_get_value", column.name, 0)>> ELSE <<>>)

----------------------------------------------------------------------------
\* enum Parsed
LiteralRef(l) == [tag |-> "LiteralRef", x |-> l]
ValueRef(v) == [tag |-> "ValueRef", x |-> v]
Value(v) == [tag |-> "Value", x |-> v]

\* impl PartialEq for Parsed: the nine pairings.
Parsed_eq(a, b) ==
    CASE a.tag = "LiteralRef" /\ b.tag = "LiteralRef" -> a.x = b.x
      [] a.tag = "LiteralRef" /\ b.tag = "ValueRef" -> Value_eq_Literal(b.x, a.x)
      [] a.tag = "LiteralRef" /\ b.tag = "Value" -> Value_eq_Literal(b.x, a.x)
      [] a.tag = "Value" /\ b.tag = "LiteralRef" -> Value_eq_Literal(a.x, b.x)
      [] a.tag = "Value" /\ b.tag = "ValueRef" -> a.x = b.x
      [] a.tag = "Value" /\ b.tag = "Value" -> a.x = b.x
      [] a.tag = "ValueRef" /\ b.tag = "LiteralRef" -> Value_eq_Literal(a.x, b.x)
      [] a.tag = "ValueRef" /\ b.tag = "ValueRef" -> a.x = b.x
      [] a.tag = "ValueRef" /\ b.tag = "Value" -> a.x = b.x

\* enum ParsedList
ListLiteralRef(literals) == [tag |-> "LiteralRef", literals |-> literals]
ListValue(statement, rows) == [tag |-> "Value", statement |-> statement, rows |-> rows]

----------------------------------------------------------------------------
\* nom_sql::Column, ConditionBase and ConditionExpression.
Column(t, n) == [table |-> t, name |-> n]

Field(column) == [b |-> "Field", column |-> column]
Literal(l) == [b |-> "Literal", literal |-> l]
LiteralList(ls) == [b |-> "LiteralList", literals |-> ls]
NestedSelect(statement) == [b |-> "NestedSelect", statement |-> statement]

Base(base) == [kind |-> "Base", base |-> base]
ComparisonOp(op, l, r) == [kind |-> "ComparisonOp", operator |-> op, left |-> l, right |-> r]
LogicalOp(op, l, r) == [kind |-> "LogicalOp", operator |-> op, left |-> l, right |-> r]
NegationOp(e) == [kind |-> "NegationOp", expr |-> e]
Bracketed(e) == [kind |-> "Bracketed", expr |-> e]

IsTree(e) == e.kind \in {"ComparisonOp", "LogicalOp"}

----------------------------------------------------------------------------
\* parse_base of parse_expr, Field arm: the FilterContext chain (the current
\* scope, then its parents) and, only when that finds nothing, the BlendContext.
\* Option::or takes an evaluated argument, so both lookups are made.
parse_field(ctx, blend, column) ==
    Option_or(get_value(Some(ctx), column), get_value(blend, column))

\* parse_base of parse_expr, NestedSelect arm: the first row's first value,
\* each step unwrapped.
parse_nested_select(st, statement) ==
    LET rows == select(st, statement)
        log0 == <<Ev("select", statement, 0)>>
        log1 == log0 \o <<Ev("next", statement, 1)>>
    IN  IF Len(rows) = 0 THEN Abort(log0)
        ELSE IF IsNone(take_first_value(rows[1])) THEN Abort(log1)
        ELSE Ok(Some(Value(take_first_value(rows[1]).some)), log1)

\* parse_expr: an operand in scalar position, Option<Parsed>.
parse_expr(st, ctx, blend, expr) ==
    IF expr.kind # "Base" THEN Ok(None, <<>>)
    ELSE CASE expr.base.b = "Field" ->
                LET v == parse_field(ctx, blend, expr.base.column)
                IN  Ok(IF IsSome(v) THEN Some(ValueRef(v.some)) ELSE None,
                       LookupLog(ctx, blend, expr.base.column))
           [] expr.base.b = "Literal" -> Ok(Some(LiteralRef(expr.base.literal)), <<>>)
           [] expr.base.b = "NestedSelect" -> parse_nested_select(st, expr.base.statement)
           [] OTHER -> Ok(None, <<>>)

\* parse_in_expr: an operand in list position, Option<ParsedList>.  The
\* iterator of a nested SELECT is built here and pulled by exists_in.
parse_in_expr(st, ctx, expr) ==
    IF expr.kind # "Base" THEN Ok(None, <<>>)
    ELSE CASE expr.base.b = "LiteralList" ->
                Ok(Some(ListLiteralRef(expr.base.literals)), <<>>)
           [] expr.base.b = "NestedSelect" ->
                Ok(Some(ListValue(expr.base.statement, select(st, expr.base.statement))),
                   <<Ev("select", expr.base.statement, 0)>>)
           [] OTHER -> Ok(None, <<>>)

\* Iterator::any over the lazy values of a nested SELECT, from row i on: a
\* row is pulled, its first value unwrapped and compared; the first match
\* ends the iteration.
RECURSIVE any_value(_, _, _, _)
any_value(self, statement, rows, i) ==
    IF i > Len(rows) THEN Done(FALSE, <<>>)
    ELSE LET pulled == <<Ev("next", statement, i)>>
             v == take_first_value(rows[i])
         IN  IF IsNone(v) THEN Panic(pulled)
             ELSE IF Parsed_eq(Value(v.some), self) THEN Done(TRUE, pulled)
             ELSE LET rest == any_value(self, statement, rows, i + 1)
                  IN  [out |-> rest.out, log |-> pulled \o rest.log]

\* exists_in as it would be if the values were collected before the search.
exists_in_collected(self, list) ==
    IF list.tag = "LiteralRef"
    THEN Done(\E i \in 1..Len(list.literals) :
                  Parsed_eq(LiteralRef(list.literals[i]), self), <<>>)
    ELSE LET n == Len(list.rows)
             pulled == [i \in 1..n |-> Ev("next", list.statement, i)]
         IN  IF \E i \in 1..n : Len(list.rows[i]) = 0 THEN Panic(pulled)
             ELSE Done(\E i \in 1..n : Parsed_eq(Value(list.rows[i][1]), self), pulled)

\* Parsed::exists_in
exists_in(self, list) ==
    IF list.tag = "LiteralRef"
    THEN Done(\E i \in 1..Len(list.literals) :
                  Parsed_eq(LiteralRef(list.literals[i]), self), <<>>)
    ELSE any_value(self, list.statement, list.rows, 1)

----------------------------------------------------------------------------
\* Result<_, ()> of the zip_* closures; "panic" is an unwinding operand.
ZOk(val, log) == [st |-> "Ok", val |-> val, log |-> log]
ZErr(log) == [st |-> "Err", val |-> <<>>, log |-> log]
ZPanic(log) == [st |-> "panic", val |-> <<>>, log |-> log]

\* zip_parse and zip_in: the tuple is built left to right, then matched.
zip_operands(pl, pr) ==
    IF pl.st = "panic" THEN ZPanic(pl.log)
    ELSE IF pr.st = "panic" THEN ZPanic(pl.log \o pr.log)
    ELSE IF IsSome(pl.val) /\ IsSome(pr.val)
         THEN ZOk(<<pl.val.some, pr.val.some>>, pl.log \o pr.log)
         ELSE ZErr(pl.log \o pr.log)

zip_parse(st, ctx, blend, tree) ==
    zip_operands(parse_expr(st, ctx, blend, tree.left),
                 parse_expr(st, ctx, blend, tree.right))

zip_in(st, ctx, blend, tree) ==
    zip_operands(parse_expr(st, ctx, blend, tree.left),
                 parse_in_expr(st, ctx, tree.right))

\* zip_check as it would be if a false left side ended the evaluation.
zip_check_short(L, R) ==
    IF L.out = "panic" THEN ZPanic(L.log)
    ELSE IF L.out = "false" THEN ZOk(<<FALSE, FALSE>>, L.log)
    ELSE IF R.out = "panic" THEN ZPanic(L.log \o R.log)
    ELSE ZOk(<<L.out = "true", R.out = "true">>, L.log \o R.log)

\* zip_check: both sides checked, left first; L and R are their results.
zip_check(L, R) ==
    IF L.out = "panic" THEN ZPanic(L.log)
    ELSE IF R.out = "panic" THEN ZPanic(L.log \o R.log)
    ELSE ZOk(<<L.out = "true", R.out = "true">>, L.log \o R.log)

\* The wildcard arm as it would be if it failed like an unresolved operand.
unsupported_operator_err == ZErr(<<>>)

\* The arm of an operator check_tree does not list: Ok(false), no operand used.
unsupported_operator == ZOk(FALSE, <<>>)

\* result.unwrap() of check_tree: Err(()) panics.
unwrap(z) == IF z.st = "Ok" THEN Done(z.val, z.log) ELSE Panic(z.log)

\* The NegationOp arm as it would be if it fell into the default arm.
negation_dropped(r) == IF IsBool(r) THEN Done(FALSE, r.log) ELSE r

\* The default arm as it would be if it admitted the row.
unhandled_node_open == Done(TRUE, <<>>)

\* map_or with the default the other way round.
no_where_clause_false == Done(FALSE, <<>>)

\* The arms of check_expr's match on the node kind.
negation(r) == IF IsBool(r) THEN Done(r.out = "false", r.log) ELSE r
bracketed(r) == r
unhandled_node == Done(FALSE, <<>>)

\* Filter::check / BlendedFilter::check without a WHERE clause: map_or(true, ..).
no_where_clause == Done(TRUE, <<>>)

RECURSIVE check_expr(_, _, _, _)

\* check_tree: the match on tree.operator and the final unwrap.
check_tree(st, ctx, blend, tree) ==
    CASE tree.operator = "Equal" ->
            LET z == zip_parse(st, ctx, blend, tree)
            IN  unwrap(IF z.st = "Ok"
                       THEN ZOk(Parsed_eq(z.val[1], z.val[2]), z.log) ELSE z)
      [] tree.operator = "NotEqual" ->
            LET z == zip_parse(st, ctx, blend, tree)
            IN  unwrap(IF z.st = "Ok"
                       THEN ZOk(~Parsed_eq(z.val[1], z.val[2]), z.log) ELSE z)
      [] tree.operator = "And" ->
            LET z == zip_check(check_expr(st, ctx, blend, tree.left),
                               check_expr(st, ctx, blend, tree.right))
            IN  unwrap(IF z.st = "Ok" THEN ZOk(z.val[1] /\ z.val[2], z.log) ELSE z)
      [] tree.operator = "Or" ->
            LET z == zip_check(check_expr(st, ctx, blend, tree.left),
                               check_expr(st, ctx, blend, tree.right))
            IN  unwrap(IF z.st = "Ok" THEN ZOk(z.val[1] \/ z.val[2], z.log) ELSE z)
      [] tree.operator = "In" ->
            LET z == zip_in(st, ctx, blend, tree)
                m == exists_in(z.val[1], z.val[2])
            IN  IF z.st = "Ok"
                THEN [out |-> m.out, log |-> z.log \o m.log]
                ELSE unwrap(z)
      [] OTHER -> unwrap(unsupported_operator)

check_expr(st, ctx, blend, expr) ==
    CASE IsTree(expr) -> check_tree(st, ctx, blend, expr)
      [] expr.kind = "NegationOp" -> negation(check_expr(st, ctx, blend, expr.expr))
      [] expr.kind = "Bracketed" -> bracketed(check_expr(st, ctx, blend, expr.expr))
      [] OTHER -> unhandled_node

----------------------------------------------------------------------------
\* The table the filter runs over, and its rows.
UserTable == "User"
UserColumns == <<"userId", "userName">>
UserRows == {<<I64(1), Str(1)>>, <<I64(2), Str(2)>>, <<I64(3), Str(3)>>}

\* The outer FilterContext a Filter may be built with and the BlendContext a
\* BlendedFilter may be built with.  Both hold a column Order.userId, with
\* different values.
ParentContext == FilterContext_from("Order", <<"userId">>, <<I64(2)>>, None)
BlendContext == FilterContext_from("Order", <<"userId">>, <<I64(1)>>, None)

UserId == Column("User", "userId")      \* resolved by the current scope
OrderUserId == Column("Order", "userId") \* resolved by the outer scopes
GhostX == Column("Ghost", "x")          \* resolved by no scope

\* The nested SELECT statements and the rows they may yield.
Statements == {"q1", "q2"}
SubRows == {<<I64(1)>>, <<I64(2)>>, <<Str(1)>>, <<>>}

RECURSIVE RowSeqs(_)
RowSeqs(n) ==
    IF n = 0 THEN {<<>>}
    ELSE LET shorter == RowSeqs(n - 1)
         IN  shorter \cup {Append(s, r) : s \in {x \in shorter : Len(x) = n - 1},
                                          r \in SubRows}

\* q2 is a nested SELECT that yields no row.
Storages(n) == {[q \in Statements |-> IF q = "q1" THEN rows ELSE <<>>] :
                    rows \in RowSeqs(n)}

\* The condition expressions.
Leaves ==
    {Base(Field(c)) : c \in {UserId, OrderUserId, GhostX}}
    \cup {Base(Literal(l)) : l \in {Integer(1), Integer(2), String(1)}}
    \cup {Base(LiteralList(ls)) : ls \in {<<>>, <<Integer(1), Integer(2)>>}}
    \cup {Base(NestedSelect(q)) : q \in Statements}

Operands == Leaves \cup {Bracketed(Base(Literal(Integer(1))))}

Comparisons ==
    {ComparisonOp(op, l, r) :
        op \in {"Equal", "NotEqual", "In", "Less"}, l \in Operands, r \in Operands}

L1 == Base(Literal(Integer(1)))
L2 == Base(Literal(Integer(2)))

Conditions ==
    {ComparisonOp("Equal", L1, L1),
     ComparisonOp("Equal", L1, L2),
     ComparisonOp("Equal", Base(Field(UserId)), L1),
     ComparisonOp("Equal", Base(Field(GhostX)), L1),
     ComparisonOp("Equal", Base(NestedSelect("q1")), L1),
     ComparisonOp("NotEqual", Base(NestedSelect("q2")), L1),
     ComparisonOp("In", L1, Base(NestedSelect("q1"))),
     ComparisonOp("Less", Base(Field(UserId)), L2),
     ComparisonOp("Like", Base(NestedSelect("q2")), Base(Field(GhostX))),
     L1}

Negated == {NegationOp(e) : e \in {c \in Conditions : c.kind = "Base" \/ c.operator \in {"Less", "Like"}}}

Logicals ==
    {LogicalOp(op, l, r) :
        op \in {"And", "Or"}, l \in Conditions \cup Negated, r \in Conditions \cup Negated}

RECURSIVE Wrapped(_, _)
Wrapped(S, n) ==
    IF n = 0 THEN S
    ELSE LET W == Wrapped(S, n - 1)
         IN  W \cup {NegationOp(e) : e \in W} \cup {Bracketed(e) : e \in W}

Memberships ==
    {ComparisonOp("In", l, Base(NestedSelect("q1"))) : l \in Leaves}

----------------------------------------------------------------------------
\* Filter::new and BlendedFilter::new.
New(st, wc, ctx, blend) ==
    /\ storage = st
    /\ where_clause = wc
    /\ context = ctx
    /\ blend_context = blend
    /\ pc = "new"
    /\ row = <<>>
    /\ result = [out |-> "none", log |-> <<>>]

Init ==
    \/ \E st \in Storages(ShortRows), wc \in {None} \cup {Some(e) : e \in Leaves \cup Comparisons},
          ctx \in {None, Some(ParentContext)}, blend \in {None, Some(BlendContext)} :
            New(st, wc, ctx, blend)
    \/ \E st \in Storages(ShortRows),
          wc \in {Some(e) : e \in Wrapped(Leaves \cup Conditions \cup Logicals, MaxWrap)} :
            New(st, wc, Some(ParentContext), Some(BlendContext))
    \/ \E st \in Storages(MaxRows), wc \in {Some(e) : e \in Memberships} :
            New(st, wc, Some(ParentContext), Some(BlendContext))

\* Filter::check(table, columns, row)
Filter_check(t, cols, r) ==
    /\ pc' = "Filter::check"
    /\ row' = r
    /\ result' = IF IsSome(where_clause)
                 THEN check_expr(storage, FilterContext_from(t, cols, r, context),
                                 None, where_clause.some)
                 ELSE no_where_clause
    /\ UNCHANGED <<storage, where_clause, context, blend_context>>

\* BlendedFilter::check(table, columns, row)
BlendedFilter_check(t, cols, r) ==
    /\ IsSome(blend_context)
    /\ pc' = "BlendedFilter::check"
    /\ row' = r
    /\ result' = IF IsSome(where_clause)
                 THEN check_expr(storage, FilterContext_from(t, cols, r, context),
                                 blend_context, where_clause.some)
                 ELSE no_where_clause
    /\ UNCHANGED <<storage, where_clause, context, blend_context>>

Next ==
    \/ \E r \in UserRows : Filter_check(UserTable, UserColumns, r)
    \/ \E r \in UserRows : BlendedFilter_check(UserTable, UserColumns, r)

Spec == Init /\ [][Next]_vars

----------------------------------------------------------------------------
\* The last call, as the properties below read it.
Called == pc # "new"
W == where_clause.some
Ctx == FilterContext_from(UserTable, UserColumns, row, context)
Blend == IF pc = "BlendedFilter::check" THEN blend_context ELSE None
Eval(e) == check_expr(storage, Ctx, Blend, e)
ParseL == parse_expr(storage, Ctx, Blend, W.left)
ParseR == parse_expr(storage, Ctx, Blend, W.right)
RootIs(ops) == Called /\ IsSome(where_clause) /\ IsTree(W) /\ W.operator \in ops
Supported == {"Equal", "NotEqual", "And", "Or", "In"}
IsNestedSelect(e) == e.kind = "Base" /\ e.base.b = "NestedSelect"
BoolOf(b) == IF b THEN "true" ELSE "false"

\* C1: an Equal / NotEqual comparison one of whose operands does not resolve
\* to a scalar (and neither operand aborts on its own) evaluates to false.
C1_ResolutionMissIsFalse ==
    (/\ RootIs({"Equal", "NotEqual"})
     /\ ParseL.st = "ok" /\ ParseR.st = "ok"
     /\ (IsNone(ParseL.val) \/ IsNone(ParseR.val)))
        => result.out = "false"

\* C2: a nested SELECT in scalar position that yields no row surfaces as a
\* SubqueryCardinalityError of the check: neither a boolean nor a panic.
C2_EmptySubqueryIsAnError ==
    (/\ RootIs({"Equal", "NotEqual", "In"})
     /\ \/ IsNestedSelect(W.left) /\ select(storage, W.left.base.statement) = <<>>
        \/ /\ W.operator # "In"
           /\ IsNestedSelect(W.right) /\ select(storage, W.right.base.statement) = <<>>)
        => result.out = "SubqueryCardinalityError"

\* C3: without a WHERE clause both checks return true for every row and
\* every outer context, and no expression is evaluated: no column is looked
\* up and no select is made.
C3_NoWhereClauseAdmits ==
    (Called /\ IsNone(where_clause)) => result = [out |-> "true", log |-> <<>>]

C3_Witness ==
    /\ pc = "BlendedFilter::check" /\ IsNone(where_clause) /\ IsSome(context)
    /\ row = <<I64(2), Str(2)>> /\ result.out = "true"

\* C4's case: in BlendedFilter::check a column the current scope does not hold and
\* that both the BlendContext and the Filter's outer FilterContext resolve is
\* compared with a literal.
BothResolve(column) ==
    /\ ~ScopeMatches(Ctx, column)
    /\ IsSome(get_value(blend_context, column))
    /\ IsSome(get_value(context, column))

C4_Case ==
    /\ pc = "BlendedFilter::check" /\ RootIs({"Equal"})
    /\ W.left.kind = "Base" /\ W.left.base.b = "Field"
    /\ W.right.kind = "Base" /\ W.right.base.b = "Literal"
    /\ BothResolve(W.left.base.column)

\* C4: the BlendContext's value is the one compared.
C4_BlendBeforeParent ==
    C4_Case =>
        result.out = BoolOf(Value_eq_Literal(
            get_value(blend_context, W.left.base.column).some, W.right.base.literal))

\* C4, what the code does: in that case the outer FilterContext's value is
\* the one compared.
C4_ParentBeforeBlend ==
    C4_Case =>
        result.out = BoolOf(Value_eq_Literal(
            get_value(context, W.left.base.column).some, W.right.base.literal))

\* The case of C5 and what it reads: the rows of the nested SELECT, the first
\* row that ends the search, the rows pulled by exists_in, and the same check
\* against a literal list.
ToLiteral(v) == IF v.t = "I64" THEN Integer(v.v) ELSE String(v.v)
C5_Case ==
    /\ RootIs({"In"}) /\ IsNestedSelect(W.right)
    /\ ParseL.st = "ok" /\ IsSome(ParseL.val)
C5_Rows == select(storage, W.right.base.statement)
C5_Matches(i) ==
    Len(C5_Rows[i]) > 0 /\ Parsed_eq(Value(C5_Rows[i][1]), ParseL.val.some)
C5_Stops == {i \in 1..Len(C5_Rows) : C5_Matches(i) \/ Len(C5_Rows[i]) = 0}
C5_Last ==
    IF C5_Stops = {} THEN Len(C5_Rows)
    ELSE CHOOSE i \in C5_Stops : \A j \in C5_Stops : i <= j
C5_Pulled == SubSeq(result.log, Len(ParseL.log) + 2, Len(result.log))
C5_Eager ==
    ComparisonOp("In", W.left,
                 Base(LiteralList([i \in 1..Len(C5_Rows) |-> ToLiteral(C5_Rows[i][1])])))

\* C5: IN against a nested SELECT pulls the rows one at a time in order,
\* stops at the first row whose value equals the left operand, pulls every
\* row only when none matches, and answers as the same check against a
\* literal list of the same values does.
C5_LazyMembership ==
    C5_Case =>
        /\ SubSeq(result.log, 1, Len(ParseL.log) + 1)
                = ParseL.log \o <<Ev("select", W.right.base.statement, 0)>>
        /\ C5_Pulled = [i \in 1..C5_Last |-> Ev("next", W.right.base.statement, i)]
        /\ result.out = (IF C5_Stops = {} THEN "false"
                         ELSE IF C5_Matches(C5_Last) THEN "true" ELSE "panic")
        /\ (\A i \in 1..Len(C5_Rows) : Len(C5_Rows[i]) > 0)
                => result.out = Eval(C5_Eager).out

C5_Witness ==
    /\ C5_Case /\ Len(C5_Rows) = MaxRows /\ result.out = "true"
    /\ Len(C5_Pulled) = 2 /\ C5_Rows[MaxRows] = <<>>

\* C6: IN against the empty literal list is false whatever the left operand.
C6_InEmptyListIsFalse ==
    (RootIs({"In"}) /\ W.right = Base(LiteralList(<<>>))) => result.out = "false"

\* C7: a WHERE clause whose root tree has an operator other than Equal,
\* NotEqual, And, Or and In makes the check return false for every row,
\* without a panic and without resolving an operand: no column lookup, no
\* nested SELECT.
C7_UnsupportedOperatorRejects ==
    (Called /\ IsSome(where_clause) /\ IsTree(W) /\ W.operator \notin Supported)
        => result = [out |-> "false", log |-> <<>>]

C7_Witness ==
    /\ pc = "Filter::check" /\ RootIs({"Like"})
    /\ IsNestedSelect(W.left) /\ select(storage, W.left.base.statement) = <<>>
    /\ W.right = Base(Field(GhostX))
    /\ result.out = "false"

\* C8: NegationOp(NegationOp(e)) and Bracketed(e) have the outcome of e: the
\* same boolean, and a failure exactly when e fails.
C8_DoubleNegationAndBrackets ==
    (Called /\ IsSome(where_clause)) =>
        /\ W.kind = "Bracketed" => result.out = Eval(W.expr).out
        /\ (W.kind = "NegationOp" /\ W.expr.kind = "NegationOp")
                => result.out = Eval(W.expr.expr).out

C8_Witness ==
    /\ Called /\ IsSome(where_clause)
    /\ W.kind = "NegationOp" /\ W.expr.kind = "NegationOp" /\ IsTree(W.expr.expr)
    /\ result.out = "true"

\* C9: an And / Or node whose left side returns a boolean evaluates its
\* right side after it, whatever that boolean is: the calls of the node are
\* those of the left side followed by those of the right side, a failure of
\* the right side fails the node, and otherwise the two booleans are combined.
C9_BothSidesEvaluated ==
    (RootIs({"And", "Or"}) /\ IsBool(Eval(W.left))) =>
        /\ result.log = Eval(W.left).log \o Eval(W.right).log
        /\ Eval(W.right).out = "panic" => result.out = "panic"
        /\ IsBool(Eval(W.right)) =>
            result.out = BoolOf(IF W.operator = "And"
                                THEN Eval(W.left).out = "true" /\ Eval(W.right).out = "true"
                                ELSE Eval(W.left).out = "true" \/ Eval(W.right).out = "true")

C9_Witness ==
    /\ RootIs({"And"}) /\ Eval(W.left).out = "false"
    /\ Eval(W.right).out = "panic" /\ Eval(W.right).log # <<>>
    /\ result.out = "panic"

\* The unsupported constructs of C10 and the Or that holds one negated.
Unsupported(e) == e.kind = "Base" \/ (IsTree(e) /\ e.operator \notin Supported)
NegatedUnsupported(e) == e.kind = "NegationOp" /\ Unsupported(e.expr)
C10_Other ==
    IF NegatedUnsupported(W.left) THEN Eval(W.right) ELSE Eval(W.left)
C10_OrCase ==
    RootIs({"Or"}) /\ (NegatedUnsupported(W.left) \/ NegatedUnsupported(W.right))

====
